---- MODULE Spec2Model ----
(***************************************************************************)
(* Employee Management System: the user directory behind the REST routes   *)
(* of the server (SignUp, login, list, create, update, delete, fetch by    *)
(* id) and the role ladder that guards them.                               *)
(*                                                                         *)
(* A request is one atomic action: the handler's lookups, its checks in    *)
(* the order of the code, and its single write.  The response of one       *)
(* request of a behaviour is kept in `last`, so that what a handler        *)
(* answered can be stated as a property of the state.                      *)
(***************************************************************************)
EXTENDS Integers, FiniteSets, TLC

\* ------------------------------------------------------------------ bounds
\* Ids the directory hands out (an ObjectId is never handed out twice).
MaxId == 3
\* Requests served in one behaviour.
MaxRequests == 3
\* Tokens signed in one behaviour.
MaxTokens == 2

\* ------------------------------------------------------------- role ladder
Roles == {"user", "tl", "manager", "admin", "master"}

roleHierarchy ==
    [r \in Roles |->
        CASE r = "master"  -> 4
          [] r = "admin"   -> 3
          [] r = "manager" -> 2
          [] r = "tl"      -> 1
          [] r = "user"    -> 0]

\* A body field that the request does not carry (undefined in JavaScript).
NoRole == "undefined"
Undefined == -1
\* The null ObjectId of an unset managerId / tlId.
Null == 0

\* canManageRole with >= for >: a role would manage its own rank.
canManageRole_OwnRank(currentUserRole, targetRole) ==
    /\ currentUserRole \in Roles
    /\ targetRole \in Roles
    /\ roleHierarchy[currentUserRole] >= roleHierarchy[targetRole]

\* roleHierarchy[x] of a key the table lacks is undefined, and every
\* comparison with undefined is false.
canManageRole(currentUserRole, targetRole) ==
    /\ currentUserRole \in Roles
    /\ targetRole \in Roles
    /\ roleHierarchy[currentUserRole] > roleHierarchy[targetRole]

\* The client's canManageRole(role), read for a signed-in state.user: its
\* table has the ranks of roleHierarchy, and a master manages every role.
clientCanManageRole(user, role) ==
    IF user.id = Null THEN FALSE
    ELSE IF user.role = "master" THEN TRUE
    ELSE roleHierarchy[user.role] > roleHierarchy[role]

\* The roles the user form offers to the signed-in user.
availableRoles(user) == {r \in Roles : clientCanManageRole(user, r)}

\* ------------------------------------------------------------------- state
VARIABLES
    dir,      \* the Users collection: id -> record, for the ids that exist
    nextId,   \* the next id the collection hands out
    last,     \* the request whose response is kept, and that response
    nreq,     \* requests served so far
    deleting, \* DELETE requests between their dependents check and their removal
    tokens,   \* the credentials POST /login has signed: {id, role} payloads
    saving,   \* POST /SignUp and POST /users between their email lookup and their save
    client    \* the browser: the AuthProvider's state, localStorage, its calls in flight

vars == <<dir, nextId, last, nreq, deleting, tokens, saving, client>>

\* The client's state.user when nobody is logged in (null), and its
\* state.error when there is none (null).
NoUser == [id |-> Null, role |-> NoRole]
NoError == "null"

initialState ==
    [user |-> NoUser, isAuthenticated |-> FALSE, isLoading |-> FALSE, error |-> NoError]

\* The browser before the AuthProvider is mounted: no token stored, no call
\* in flight, no action dispatched.
Unmounted ==
    [state |-> initialState, token |-> FALSE, mounted |-> FALSE,
     loadUser |-> "idle", login |-> "idle", updateUser |-> "idle", action |-> "none"]

Ids == 1..MaxId
Emails == 1..MaxId
MasterEmail == 1

\* Ids handed out so far, whether the record still exists or not.
Allocated == 1..(nextId - 1)

UserDoc(role, managerId, tlId, email) ==
    [role |-> role, managerId |-> managerId, tlId |-> tlId, email |-> email]

\* Users.findOne({ email })
EmailTaken(email) == \E i \in DOMAIN dir : dir[i].email = email

\* A collection without the unique index on email: every write is accepted.
UniqueEmailIndex_Off(d) == TRUE

\* The unique index on email: a write that would give two records the same
\* email is refused by the collection.
UniqueEmailIndex(d) ==
    \A i, j \in DOMAIN d : d[i].email = d[j].email => i = j

\* new Users({...}).save(): the record gets the next id.  The handlers save
\* only while an id of Ids is left (nextId \in Ids), which caps the counter.
Insert(doc) == [i \in DOMAIN dir \cup {nextId} |-> IF i = nextId THEN doc ELSE dir[i]]

\* op, status and message are the route and its answer; actor is req.user.id,
\* target the record the request names (or creates); arole and trole are the
\* roles the handler compared; users are the ids a listing returned.
Response(op, status, message, actor, target, arole, trole, users) ==
    [op |-> op, status |-> status, message |-> message, actor |-> actor,
     target |-> target, arole |-> arole, trole |-> trole, users |-> users]

\* No response is kept yet.
Idle == Response("none", 0, "", Null, Null, NoRole, NoRole, {})

\* A response to POST /users, kept with what the handler's tests !tlId and
\* !managerId read of the body it answers: whether each link is set.
ToBody(response, tlId, managerId) ==
    response @@ [hasTlId |-> tlId # Null, hasManagerId |-> managerId # Null]

RoleOf(id) == IF id \in DOMAIN dir THEN dir[id].role ELSE NoRole

\* The role of a credential for the caller's id (any one, if several were
\* signed), for a handler that reads req.user.role instead of the record.
currentUserRole_FromToken(actor) ==
    IF \E tok \in tokens : tok.id = actor
    THEN (CHOOSE tok \in tokens : tok.id = actor).role
    ELSE dir[actor].role

\* currentUser = await Users.findById(req.user.id); currentUser.role: the
\* role a guarded mutation compares is the stored one.
currentUserRole(actor) == dir[actor].role

\* The state after scripts/initMaster.js: the master admin alone.
Init ==
    /\ dir = [i \in {1} |-> UserDoc("master", Null, Null, MasterEmail)]
    /\ nextId = 2
    /\ last = Idle
    /\ nreq = 0
    /\ deleting = {}
    /\ tokens = {}
    /\ saving = {}
    /\ client = Unmounted

\* A request is served while no response is kept.  Its response is either
\* dropped, and the behaviour goes on from the directory it leaves, or kept
\* in last, and the behaviour ends there: so every request to every
\* directory that MaxRequests - 1 requests can build is answered in some
\* state.  The response of the last request the bound allows is kept.
Serving == nreq < MaxRequests /\ last = Idle
Serve == Serving /\ nreq' = nreq + 1 /\ UNCHANGED <<deleting, tokens, saving, client>>

Reply(response) ==
    \/ last' = response
    \/ nreq + 1 < MaxRequests /\ last' = Idle

\* ---------------------------------------------------------------- handlers
\* POST /SignUp: no token; the record takes the schema's defaults.
SignUp(email) ==
    /\ Serve
    /\ IF EmailTaken(email)
       THEN /\ Reply(Response("signup", 400, "Email already exists", Null, Null, NoRole, NoRole, {}))
            /\ UNCHANGED <<dir, nextId>>
       ELSE /\ nextId \in Ids
            /\ dir' = Insert(UserDoc("user", Null, Null, email))
            /\ nextId' = nextId + 1
            /\ Reply(Response("signup", 201, "User signed up successfully", Null, nextId, NoRole, "user", {}))

\* POST /login: signs a token carrying the record's id, role and email.  The
\* server keeps no session, so the handler leaves the state as it is.
Login(email, isPasswordValid) ==
    /\ Serve
    /\ IF ~EmailTaken(email)
       THEN Reply(Response("login", 404, "User not found", Null, Null, NoRole, NoRole, {}))
       ELSE LET id == CHOOSE i \in DOMAIN dir : dir[i].email = email IN
            IF ~isPasswordValid
            THEN Reply(Response("login", 401, "Invalid password", Null, id, NoRole, NoRole, {}))
            ELSE Reply(Response("login", 200, "Login successful", id, id,
                                dir[id].role, dir[id].role, {}))
    /\ UNCHANGED <<dir, nextId>>

\* GET /me: the record of the token's id.
Me(actor) ==
    /\ Serve
    /\ actor \in Allocated
    /\ IF actor \notin DOMAIN dir
       THEN Reply(Response("me", 404, "User not found", actor, actor, NoRole, NoRole, {}))
       ELSE Reply(Response("me", 200, "", actor, actor, dir[actor].role, dir[actor].role, {actor}))
    /\ UNCHANGED <<dir, nextId>>

\* UsersQuery with the admin's $in list widened by 'admin'.
UsersQuery_AdminSeesAdmins(currentUser, id) ==
    LET role == dir[currentUser].role IN
    IF role = "admin" THEN dir[id].role \in {"admin", "manager", "tl", "user"}
    ELSE IF role = "manager"
    THEN \/ dir[id].managerId = currentUser
         \/ dir[id].tlId \in {j \in DOMAIN dir : dir[j].managerId = currentUser}
    ELSE IF role = "tl" THEN dir[id].tlId = currentUser
    ELSE TRUE

\* UsersQuery with the team lead's filter on managerId instead of tlId.
UsersQuery_TlByManagerId(currentUser, id) ==
    LET role == dir[currentUser].role IN
    IF role = "admin" THEN dir[id].role \in {"manager", "tl", "user"}
    ELSE IF role = "manager"
    THEN \/ dir[id].managerId = currentUser
         \/ dir[id].tlId \in {j \in DOMAIN dir : dir[j].managerId = currentUser}
    ELSE IF role = "tl" THEN dir[id].managerId = currentUser
    ELSE TRUE

\* The query GET /users builds from the caller's role; a record matches the
\* empty query {} whatever it holds.
UsersQuery(currentUser, id) ==
    LET role == dir[currentUser].role IN
    IF role # "master"
    THEN IF role = "admin"
         THEN dir[id].role \in {"manager", "tl", "user"}
         ELSE IF role = "manager"
         THEN \/ dir[id].managerId = currentUser
              \/ dir[id].tlId \in {j \in DOMAIN dir : dir[j].managerId = currentUser}
         ELSE IF role = "tl"
         THEN dir[id].tlId = currentUser
         ELSE TRUE
    ELSE TRUE

\* GET /users
ListUsers(actor) ==
    /\ Serve
    /\ actor \in Allocated
    /\ IF actor \notin DOMAIN dir
       THEN Reply(Response("list", 404, "User not found", actor, Null, NoRole, NoRole, {}))
       ELSE Reply(Response("list", 200, "", actor, Null, dir[actor].role, NoRole,
                             {i \in DOMAIN dir : UsersQuery(actor, i)}))
    /\ UNCHANGED <<dir, nextId>>

\* GET /users/:id
GetUser(actor, id) ==
    /\ Serve
    /\ actor \in Allocated
    /\ IF id \notin DOMAIN dir
       THEN Reply(Response("get", 404, "User not found", actor, id, RoleOf(actor), NoRole, {}))
       ELSE Reply(Response("get", 200, "", actor, id, RoleOf(actor), dir[id].role, {id}))
    /\ UNCHANGED <<dir, nextId>>

\* POST /users without its two "Validate hierarchy" tests.
CreateUser_NoLinkCheck(actor, email, role, tlId, managerId) ==
    /\ Serve
    /\ actor \in Allocated
    /\ IF actor \notin DOMAIN dir
       THEN /\ Reply(ToBody(Response("create", 404, "User not found", actor, Null, NoRole, role, {}),
                            tlId, managerId))
            /\ UNCHANGED <<dir, nextId>>
       ELSE IF ~canManageRole(dir[actor].role, role)
       THEN /\ Reply(ToBody(Response("create", 403, "You don't have permission to create users with this role",
                                     actor, Null, dir[actor].role, role, {}), tlId, managerId))
            /\ UNCHANGED <<dir, nextId>>
       ELSE IF EmailTaken(email)
       THEN /\ Reply(ToBody(Response("create", 400, "Email already exists",
                                     actor, Null, dir[actor].role, role, {}), tlId, managerId))
            /\ UNCHANGED <<dir, nextId>>
       ELSE /\ nextId \in Ids
            /\ dir' = Insert(UserDoc(role, managerId, tlId, email))
            /\ nextId' = nextId + 1
            /\ Reply(ToBody(Response("create", 201, "User created successfully",
                                      actor, nextId, dir[actor].role, role, {}), tlId, managerId))

\* POST /users with the "Validate hierarchy" tests ahead of the role check.
CreateUser_LinksFirst(actor, email, role, tlId, managerId) ==
    /\ Serve
    /\ actor \in Allocated
    /\ IF actor \notin DOMAIN dir
       THEN /\ Reply(ToBody(Response("create", 404, "User not found", actor, Null, NoRole, role, {}),
                            tlId, managerId))
            /\ UNCHANGED <<dir, nextId>>
       ELSE LET deny(status, message) ==
                    /\ Reply(ToBody(Response("create", status, message, actor, Null,
                                             dir[actor].role, role, {}), tlId, managerId))
                    /\ UNCHANGED <<dir, nextId>>
            IN
            IF role = "user" /\ tlId = Null
            THEN deny(400, "Users must have a Team Leader")
            ELSE IF role \in {"user", "tl"} /\ managerId = Null
            THEN deny(400, "Users and Team Leaders must have a Manager")
            ELSE IF ~canManageRole(dir[actor].role, role)
            THEN deny(403, "You don't have permission to create users with this role")
            ELSE IF EmailTaken(email)
            THEN deny(400, "Email already exists")
            ELSE /\ nextId \in Ids
                 /\ dir' = Insert(UserDoc(role, managerId, tlId, email))
                 /\ nextId' = nextId + 1
                 /\ Reply(ToBody(Response("create", 201, "User created successfully",
                                           actor, nextId, dir[actor].role, role, {}),
                                  tlId, managerId))

\* POST /users.  An unset tlId / managerId of the body is saved as the
\* schema's default null, so the body carries Null for both cases.
CreateUser(actor, email, role, tlId, managerId) ==
    /\ Serve
    /\ actor \in Allocated
    /\ IF actor \notin DOMAIN dir
       THEN /\ Reply(ToBody(Response("create", 404, "User not found", actor, Null, NoRole, role, {}),
                            tlId, managerId))
            /\ UNCHANGED <<dir, nextId>>
       ELSE LET arole == currentUserRole(actor)
                deny(status, message) ==
                    /\ Reply(ToBody(Response("create", status, message, actor, Null, arole, role, {}),
                                    tlId, managerId))
                    /\ UNCHANGED <<dir, nextId>>
            IN
            IF ~canManageRole(arole, role)
            THEN deny(403, "You don't have permission to create users with this role")
            ELSE IF role = "user" /\ tlId = Null
            THEN deny(400, "Users must have a Team Leader")
            ELSE IF role \in {"user", "tl"} /\ managerId = Null
            THEN deny(400, "Users and Team Leaders must have a Manager")
            ELSE IF EmailTaken(email)
            THEN deny(400, "Email already exists")
            ELSE /\ nextId \in Ids
                 /\ dir' = Insert(UserDoc(role, managerId, tlId, email))
                 /\ nextId' = nextId + 1
                 /\ Reply(ToBody(Response("create", 201, "User created successfully",
                                           actor, nextId, arole, role, {}),
                                  tlId, managerId))

\* { $set: updates } with the undefined fields removed.
SetFields(doc, role, managerId, tlId, email) ==
    UserDoc(IF role = NoRole THEN doc.role ELSE role,
            IF managerId = Undefined THEN doc.managerId ELSE managerId,
            IF tlId = Undefined THEN doc.tlId ELSE tlId,
            IF email = Undefined THEN doc.email ELSE email)

\* PUT /users/:id
UpdateUser(actor, id, role, managerId, tlId, email) ==
    /\ Serve
    /\ actor \in Allocated
    /\ IF actor \notin DOMAIN dir
       THEN /\ Reply(Response("update", 404, "User not found", actor, id, NoRole, NoRole, {}))
            /\ UNCHANGED dir
       ELSE IF id \notin DOMAIN dir
       THEN /\ Reply(Response("update", 404, "User to update not found",
                                actor, id, dir[actor].role, NoRole, {}))
            /\ UNCHANGED dir
       ELSE LET arole == currentUserRole(actor)
                trole == dir[id].role
                updated == [dir EXCEPT ![id] = SetFields(dir[id], role, managerId, tlId, email)]
                answer(status, message) ==
                    Reply(Response("update", status, message, actor, id, arole, trole, {}))
            IN
            IF actor # id /\ ~canManageRole(arole, trole)
            THEN answer(403, "You don't have permission to update this user") /\ UNCHANGED dir
            ELSE IF role # NoRole /\ role # trole /\ actor # id /\ ~canManageRole(arole, role)
            THEN answer(403, "You don't have permission to assign this role") /\ UNCHANGED dir
            ELSE IF ~UniqueEmailIndex(updated)
            THEN answer(500, "Internal server error") /\ UNCHANGED dir
            ELSE answer(200, "User updated successfully") /\ dir' = updated
    /\ UNCHANGED nextId

\* Users.findOne({ $or: [{ tlId: id }, { managerId: id }] })
hasSubordinates(id) ==
    \E i \in DOMAIN dir : dir[i].tlId = id \/ dir[i].managerId = id

\* DELETE /users/:id that removes a record with subordinates before it
\* answers 400.
DeleteUser_RemovesThenRefuses(actor, id) ==
    /\ Serve
    /\ actor \in Allocated
    /\ IF actor \notin DOMAIN dir
       THEN /\ Reply(Response("delete", 404, "User not found", actor, id, NoRole, NoRole, {}))
            /\ UNCHANGED dir
       ELSE IF id \notin DOMAIN dir
       THEN /\ Reply(Response("delete", 404, "User to delete not found",
                                actor, id, dir[actor].role, NoRole, {}))
            /\ UNCHANGED dir
       ELSE IF ~canManageRole(dir[actor].role, dir[id].role)
       THEN /\ Reply(Response("delete", 403, "You don't have permission to delete this user",
                                actor, id, dir[actor].role, dir[id].role, {}))
            /\ UNCHANGED dir
       ELSE /\ Reply(Response("delete", IF hasSubordinates(id) THEN 400 ELSE 200,
                                IF hasSubordinates(id) THEN "Cannot delete user with subordinates"
                                ELSE "User deleted successfully",
                                actor, id, dir[actor].role, dir[id].role, {}))
            /\ dir' = [i \in DOMAIN dir \ {id} |-> dir[i]]
    /\ UNCHANGED nextId

\* DELETE /users/:id
DeleteUser(actor, id) ==
    /\ Serve
    /\ actor \in Allocated
    /\ IF actor \notin DOMAIN dir
       THEN /\ Reply(Response("delete", 404, "User not found", actor, id, NoRole, NoRole, {}))
            /\ UNCHANGED dir
       ELSE IF id \notin DOMAIN dir
       THEN /\ Reply(Response("delete", 404, "User to delete not found",
                                actor, id, dir[actor].role, NoRole, {}))
            /\ UNCHANGED dir
       ELSE LET arole == currentUserRole(actor)
                trole == dir[id].role
                answer(status, message) ==
                    Reply(Response("delete", status, message, actor, id, arole, trole, {}))
            IN
            IF ~canManageRole(arole, trole)
            THEN answer(403, "You don't have permission to delete this user") /\ UNCHANGED dir
            ELSE IF hasSubordinates(id)
            THEN answer(400, "Cannot delete user with subordinates") /\ UNCHANGED dir
            ELSE /\ answer(200, "User deleted successfully")
                 /\ dir' = [i \in DOMAIN dir \ {id} |-> dir[i]]
    /\ UNCHANGED nextId

\* Users.countDocuments({ role })
countByRole(role) == Cardinality({i \in DOMAIN dir : dir[i].role = role})

\* The tl branch of the dashboard without its role filter.
tlStats_AnyRole(currentUser) ==
    [tlTeamMembers |-> Cardinality({i \in DOMAIN dir : dir[i].tlId = currentUser})]

\* The manager branch of the dashboard with the team leads counted among
\* the team members too.
managerStats_LeadsAreMembers(currentUser) ==
    LET tls == {j \in DOMAIN dir : dir[j].managerId = currentUser /\ dir[j].role = "tl"} IN
    [managerTeamLeaders |-> Cardinality(tls),
     managerTeamMembers |->
        Cardinality({i \in DOMAIN dir :
                        \/ dir[i].managerId = currentUser /\ dir[i].role \in {"tl", "user"}
                        \/ dir[i].tlId \in tls})]

\* The branches of GET /dashboard/stats.
masterStats ==
    [totalEmployees |-> Cardinality(DOMAIN dir),
     admins |-> countByRole("admin"),
     managers |-> countByRole("manager"),
     teamLeaders |-> countByRole("tl"),
     users |-> countByRole("user")]

adminStats ==
    [managers |-> countByRole("manager"),
     teamLeaders |-> countByRole("tl"),
     users |-> countByRole("user")]

managerStats(currentUser) ==
    LET tls == {j \in DOMAIN dir : dir[j].managerId = currentUser /\ dir[j].role = "tl"} IN
    [managerTeamLeaders |-> Cardinality(tls),
     managerTeamMembers |->
        Cardinality({i \in DOMAIN dir :
                        \/ dir[i].managerId = currentUser /\ dir[i].role = "user"
                        \/ dir[i].tlId \in tls})]

tlStats(currentUser) ==
    [tlTeamMembers |->
        Cardinality({i \in DOMAIN dir : dir[i].tlId = currentUser /\ dir[i].role = "user"})]

\* let stats = {}: the object without counters.
emptyStats == [counter \in {} |-> 0]

\* GET /dashboard/stats
DashboardStats(actor) ==
    /\ Serve
    /\ actor \in Allocated
    /\ IF actor \notin DOMAIN dir
       THEN Reply(Response("stats", 404, "User not found", actor, Null, NoRole, NoRole, {}))
       ELSE LET role == dir[actor].role
                stats == IF role = "master" THEN masterStats
                         ELSE IF role = "admin" THEN adminStats
                         ELSE IF role = "manager" THEN managerStats(actor)
                         ELSE IF role = "tl" THEN tlStats(actor)
                         ELSE emptyStats
            IN Reply(Response("stats", 200, "", actor, Null, role, NoRole, {})
                        @@ [stats |-> stats])
    /\ UNCHANGED <<dir, nextId>>

\* ------------------------------------------------------------------ inputs
\* The auth middleware puts the id of a verified token in req.user.id.  A
\* token lives on after its record is deleted, so the caller of a guarded
\* route is any id the directory has handed out.
Callers == Allocated

\* Email addresses are interchangeable.  A request that only asks whether
\* an email is taken names the least taken or the least free one; an update
\* names its target's own email, the least email of another record, or the
\* least free one.
EmailsInUse == {dir[i].email : i \in DOMAIN dir}
Least(S) == {e \in S : \A f \in S : e <= f}
NewEmails == Least(EmailsInUse) \cup Least(Emails \ EmailsInUse)
LoginEmails == EmailsInUse \cup Least(Emails \ EmailsInUse)
UpdateEmails(id) ==
    {dir[id].email} \cup Least(EmailsInUse \ {dir[id].email}) \cup Least(Emails \ EmailsInUse)

BodyRoles == Roles \cup {NoRole}
\* A link of a body names a record, a deleted record, or nothing.
BodyLinks == Allocated \cup {Null}

\* POST /users reads email, tlId and managerId only once the role check has
\* passed; a request that check refuses is drawn with one body.
CreateReadsBody(a, r) == a \in DOMAIN dir /\ canManageRole(dir[a].role, r)
CreateLinks(a, r) == IF CreateReadsBody(a, r) THEN BodyLinks ELSE {Null}
CreateEmails(a, r) == IF CreateReadsBody(a, r) THEN NewEmails ELSE {MasterEmail}

\* A PUT body sets one field; the fields it leaves out are undefined.
UpdateBodies(id) ==
    {<<r, Undefined, Undefined, Undefined>> : r \in Roles}
    \cup {<<NoRole, m, Undefined, Undefined>> : m \in BodyLinks}
    \cup {<<NoRole, Undefined, t, Undefined>> : t \in BodyLinks}
    \cup {<<NoRole, Undefined, Undefined, e>> : e \in UpdateEmails(id)}

\* PUT /users/:id reads the body only once both records are found and the
\* caller may update the target; a request refused before is drawn with one
\* body.
UpdateReadsBody(a, id) ==
    /\ a \in DOMAIN dir
    /\ id \in DOMAIN dir
    /\ (a = id \/ canManageRole(dir[a].role, dir[id].role))
UpdateBodiesFor(a, id) ==
    IF UpdateReadsBody(a, id) THEN UpdateBodies(id)
    ELSE {<<NoRole, Undefined, Undefined, Undefined>>}

Next ==
    \/ Serving /\ \E e \in NewEmails : SignUp(e)
    \/ Serving /\ \E e \in LoginEmails, ok \in BOOLEAN : Login(e, ok)
    \/ Serving /\ \E a \in Callers : Me(a)
    \/ Serving /\ \E a \in Callers : ListUsers(a)
    \/ Serving /\ \E a \in Callers, id \in Allocated : GetUser(a, id)
    \/ Serving /\ \E a \in Callers, r \in BodyRoles :
          \E e \in CreateEmails(a, r), t \in CreateLinks(a, r), m \in CreateLinks(a, r) :
             CreateUser(a, e, r, t, m)
    \/ Serving /\ \E a \in Callers, id \in Allocated :
          \E b \in UpdateBodiesFor(a, id) : UpdateUser(a, id, b[1], b[2], b[3], b[4])
    \/ Serving /\ \E a \in Callers, id \in Allocated : DeleteUser(a, id)
    \/ Serving /\ \E a \in Callers : DashboardStats(a)

Spec == Init /\ [][Next]_vars

\* ------------------------------------------------ DELETE as the awaits run it
\* DELETE /users/:id awaits the dependents query and then awaits
\* findByIdAndDelete; other requests are served between the two awaits.
\* A request that passes every check is left pending; one that fails a check
\* is answered as in DeleteUser.
DeleteChecksPass(actor, id) ==
    /\ actor \in DOMAIN dir
    /\ id \in DOMAIN dir
    /\ canManageRole(currentUserRole(actor), dir[id].role)
    /\ ~hasSubordinates(id)

DeleteCheck(actor, id) ==
    IF DeleteChecksPass(actor, id)
    THEN /\ Serving
         /\ nreq' = nreq + 1
         /\ deleting' = deleting \cup {[actor |-> actor, id |-> id,
                                        arole |-> dir[actor].role, trole |-> dir[id].role]}
         /\ UNCHANGED <<dir, nextId, last, tokens, saving, client>>
    ELSE DeleteUser(actor, id)

\* await Users.findByIdAndDelete(req.params.id), then the 200.
DeleteRemove(req) ==
    /\ req \in deleting
    /\ deleting' = deleting \ {req}
    /\ dir' = [i \in DOMAIN dir \ {req.id} |-> dir[i]]
    /\ \/ last = Idle /\ last' = Response("delete", 200, "User deleted successfully",
                                          req.actor, req.id, req.arole, req.trole, {})
       \/ UNCHANGED last
    /\ UNCHANGED <<nextId, nreq, tokens, saving, client>>

NextRace ==
    \/ Next
    \/ Serving /\ \E a \in Callers, id \in Allocated : DeleteCheck(a, id)
    \/ \E req \in deleting : DeleteRemove(req)

SpecRace == Init /\ [][NextRace]_vars

\* ------------------------------------------------- requests with credentials
\* POST /login answered 200: jwt.sign({email, role, id}) with the record's
\* role of that moment; the client keeps the token and sends it with later
\* requests.  The email of the payload is read by no route.
LoginToken(email) ==
    /\ Cardinality(tokens) < MaxTokens
    /\ EmailTaken(email)
    /\ LET id == CHOOSE i \in DOMAIN dir : dir[i].email = email
       IN tokens' = tokens \cup {[id |-> id, role |-> dir[id].role]}
    /\ UNCHANGED <<dir, nextId, last, nreq, deleting, saving, client>>

\* req.user.id of the tokens the clients hold.
TokenCallers == {tok.id : tok \in tokens}

\* No route reads tlId or managerId to decide who may write, so the bodies
\* sent with a token name the caller or nobody in both links of a create,
\* and set the role or the email in an update.
TokenLinks(a, r) == IF CreateReadsBody(a, r) THEN {Null, a} ELSE {Null}
TokenUpdateBodies(a, id) ==
    {b \in UpdateBodiesFor(a, id) : b[2] = Undefined /\ b[3] = Undefined}

\* The routes that write, called with the tokens that were signed.
NextToken ==
    \/ \E e \in EmailsInUse : LoginToken(e)
    \/ Serving /\ \E e \in NewEmails : SignUp(e)
    \/ Serving /\ \E a \in TokenCallers, r \in BodyRoles :
          \E e \in CreateEmails(a, r), l \in TokenLinks(a, r) :
             CreateUser(a, e, r, l, l)
    \/ Serving /\ \E a \in TokenCallers, id \in Allocated :
          \E b \in TokenUpdateBodies(a, id) : UpdateUser(a, id, b[1], b[2], b[3], b[4])
    \/ Serving /\ \E a \in TokenCallers, id \in Allocated : DeleteUser(a, id)

SpecToken == Init /\ [][NextToken]_vars

\* ------------------------------------------------ lookups and saves interleaved
\* POST /SignUp and POST /users await Users.findOne({ email }) and, further
\* on, newUser.save(); other requests are served between the two awaits.  A
\* request whose lookup finds nothing is left pending with the record it
\* will save; any other request is answered as in SignUp and CreateUser.
Pending(op, actor, arole, doc) ==
    [op |-> op, n |-> nreq, actor |-> actor, arole |-> arole, doc |-> doc]

SignUpFind(email) ==
    IF ~EmailTaken(email)
    THEN /\ Serving
         /\ nreq' = nreq + 1
         /\ saving' = saving \cup {Pending("signup", Null, NoRole, UserDoc("user", Null, Null, email))}
         /\ UNCHANGED <<dir, nextId, last, deleting, tokens, client>>
    ELSE SignUp(email)

CreateChecksPass(actor, email, role, tlId, managerId) ==
    /\ actor \in DOMAIN dir
    /\ canManageRole(currentUserRole(actor), role)
    /\ ~(role = "user" /\ tlId = Null)
    /\ ~(role \in {"user", "tl"} /\ managerId = Null)
    /\ ~EmailTaken(email)

CreateFind(actor, email, role, tlId, managerId) ==
    IF CreateChecksPass(actor, email, role, tlId, managerId)
    THEN /\ Serving
         /\ nreq' = nreq + 1
         /\ saving' = saving \cup {Pending("create", actor, currentUserRole(actor),
                                            UserDoc(role, managerId, tlId, email))}
         /\ UNCHANGED <<dir, nextId, last, deleting, tokens, client>>
    ELSE CreateUser(actor, email, role, tlId, managerId)

\* await newUser.save(): the collection inserts the record unless the index
\* refuses it, and then the rejection is caught and answered 500.
Save(req) ==
    /\ req \in saving
    /\ nextId \in Ids
    /\ saving' = saving \ {req}
    /\ LET answer(status, message, target) ==
               \/ /\ last = Idle
                  /\ last' = Response(req.op, status, message, req.actor, target,
                                       req.arole, req.doc.role, {})
                               @@ [email |-> req.doc.email]
               \/ UNCHANGED last
       IN IF UniqueEmailIndex(Insert(req.doc))
          THEN /\ dir' = Insert(req.doc)
               /\ nextId' = nextId + 1
               /\ answer(201, IF req.op = "signup" THEN "User signed up successfully"
                                                   ELSE "User created successfully", nextId)
          ELSE /\ UNCHANGED <<dir, nextId>>
               /\ answer(500, "Internal server error", Null)
    /\ UNCHANGED <<nreq, deleting, tokens, client>>

\* The emails of the requests: the one of the master, and one that no
\* record has yet.
RacingEmails == {MasterEmail} \cup Least(Emails \ EmailsInUse)

NextEmail ==
    \/ Serving /\ \E e \in RacingEmails : SignUpFind(e)
    \/ Serving /\ \E a \in Callers, e \in RacingEmails, r \in {"admin", "user"} :
                    CreateFind(a, e, r, Null, Null)
    \/ \E req \in saving : Save(req)
    \/ Serving /\ \E a \in Callers, id \in DOMAIN dir : \E e \in UpdateEmails(id) :
                    UpdateUser(a, id, NoRole, Undefined, Undefined, e)

SpecEmail == Init /\ [][NextEmail]_vars

\* ------------------------------------------------------------- the client
\* { ...user, ...payload }: the fields of the payload over those of the user.
Merge(user, payload) ==
    [f \in DOMAIN user \cup DOMAIN payload |->
        IF f \in DOMAIN payload THEN payload[f] ELSE user[f]]

\* AuthReducer whose UPDATE_USER spreads the payload over a null user too.
AuthReducer_MergeIntoNull(state, type, payload) ==
    CASE type = "LOGIN_START" -> [state EXCEPT !.isLoading = TRUE, !.error = NoError]
      [] type = "LOGIN_SUCCESS" ->
            [state EXCEPT !.user = payload, !.isAuthenticated = TRUE,
                          !.isLoading = FALSE, !.error = NoError]
      [] type = "LOGIN_FAILURE" ->
            [state EXCEPT !.user = NoUser, !.isAuthenticated = FALSE,
                          !.isLoading = FALSE, !.error = payload]
      [] type = "LOGOUT" -> initialState
      [] type = "UPDATE_USER" -> [state EXCEPT !.user = Merge(state.user, payload)]
      [] OTHER -> state

\* LOGOUT also removes the token from localStorage; the actions that
\* dispatch it clear client.token.
AuthReducer(state, type, payload) ==
    CASE type = "LOGIN_START" -> [state EXCEPT !.isLoading = TRUE, !.error = NoError]
      [] type = "LOGIN_SUCCESS" ->
            [state EXCEPT !.user = payload, !.isAuthenticated = TRUE,
                          !.isLoading = FALSE, !.error = NoError]
      [] type = "LOGIN_FAILURE" ->
            [state EXCEPT !.user = NoUser, !.isAuthenticated = FALSE,
                          !.isLoading = FALSE, !.error = payload]
      [] type = "LOGOUT" -> initialState
      [] type = "UPDATE_USER" ->
            [state EXCEPT !.user = IF state.user # NoUser
                                   THEN Merge(state.user, payload) ELSE NoUser]
      [] OTHER -> state

\* dispatch(action): the reducer's result becomes the state.
Dispatch(c, type, payload) ==
    [c EXCEPT !.state = AuthReducer(c.state, type, payload), !.action = type]

\* The User object built from the data.user of a response: GET /me and
\* PUT /users/:id answer a record, which has _id; POST /login answers an
\* object with id and no _id, so data.user._id is undefined.
FromRecord == [id : Ids, role : Roles]
FromLogin == [id : {Undefined}, role : Roles]

\* The page loads, or is loaded again: the provider starts from initialState,
\* calls in flight are gone, localStorage is kept, and the effect calls
\* loadUser, which dispatches LOGOUT at once if no token is stored.
Mount ==
    /\ client' = IF client.token
                 THEN [Unmounted EXCEPT !.mounted = TRUE, !.token = TRUE,
                                        !.loadUser = "fetching"]
                 ELSE Dispatch([Unmounted EXCEPT !.mounted = TRUE, !.loadUser = "done"],
                               "LOGOUT", NoUser)
    /\ UNCHANGED <<dir, nextId, last, nreq, deleting, tokens, saving>>

\* loadUser after the fetch of /me: ok is response.ok.
LoadUserDone(ok, user) ==
    /\ client.loadUser = "fetching"
    /\ client' = IF ok
                 THEN Dispatch([client EXCEPT !.loadUser = "done"], "LOGIN_SUCCESS", user)
                 ELSE Dispatch([client EXCEPT !.loadUser = "done", !.token = FALSE],
                               "LOGOUT", NoUser)
    /\ UNCHANGED <<dir, nextId, last, nreq, deleting, tokens, saving>>

\* login up to its fetch.
LoginStart ==
    /\ client.mounted
    /\ client.login = "idle"
    /\ client' = Dispatch([client EXCEPT !.login = "fetching"], "LOGIN_START", NoUser)
    /\ UNCHANGED <<dir, nextId, last, nreq, deleting, tokens, saving>>

\* login after its fetch: a response that is not ok, or a failed fetch, ends
\* in LOGIN_FAILURE; an ok response stores the token.
LoginDone(ok, user) ==
    /\ client.login = "fetching"
    /\ client' = IF ok
                 THEN Dispatch([client EXCEPT !.login = "idle", !.token = TRUE],
                               "LOGIN_SUCCESS", user)
                 ELSE Dispatch([client EXCEPT !.login = "idle"], "LOGIN_FAILURE", "Login failed")
    /\ UNCHANGED <<dir, nextId, last, nreq, deleting, tokens, saving>>

Logout ==
    /\ client.mounted
    /\ client' = Dispatch([client EXCEPT !.token = FALSE], "LOGOUT", NoUser)
    /\ UNCHANGED <<dir, nextId, last, nreq, deleting, tokens, saving>>

\* updateUser up to its fetch: it returns at once without a user or without
\* the user's id, and after LOGIN_START and LOGIN_FAILURE without a token.
UpdateUserStart ==
    /\ client.mounted
    /\ client.updateUser = "idle"
    /\ client' =
          IF client.state.user = NoUser \/ client.state.user.id = Undefined
          THEN client
          ELSE LET started == Dispatch(client, "LOGIN_START", NoUser) IN
               IF ~client.token
               THEN Dispatch(started, "LOGIN_FAILURE", "Authentication token not found.")
               ELSE [started EXCEPT !.updateUser = "fetching"]
    /\ UNCHANGED <<dir, nextId, last, nreq, deleting, tokens, saving>>

\* updateUser after its fetch: UPDATE_USER with the record of an ok
\* response, LOGIN_FAILURE from the catch otherwise.
UpdateUserDone(ok, user) ==
    /\ client.updateUser = "fetching"
    /\ client' = IF ok
                 THEN Dispatch([client EXCEPT !.updateUser = "idle"], "UPDATE_USER", user)
                 ELSE Dispatch([client EXCEPT !.updateUser = "idle"],
                               "LOGIN_FAILURE", "Failed to update user")
    /\ UNCHANGED <<dir, nextId, last, nreq, deleting, tokens, saving>>

NextClient ==
    \/ Mount
    \/ \E ok \in BOOLEAN, user \in FromRecord : LoadUserDone(ok, user)
    \/ LoginStart
    \/ \E ok \in BOOLEAN, user \in FromLogin : LoginDone(ok, user)
    \/ Logout
    \/ UpdateUserStart
    \/ \E ok \in BOOLEAN, user \in FromRecord : UpdateUserDone(ok, user)

SpecClient == Init /\ [][NextClient]_vars

\* ------------------------------------------------------------------ claims
\* canManage as the specification states it: strictly higher rank, or master.
canManage(r1, r2) ==
    /\ r1 \in Roles
    /\ r2 \in Roles
    /\ (r1 = "master" \/ roleHierarchy[r1] > roleHierarchy[r2])

\* The kept response is of a request whose caller and target were both found.
BothFound == last.arole \in Roles /\ last.trole \in Roles

UpdateRefused == last.message = "You don't have permission to update this user"
DeleteRefused == last.message = "You don't have permission to delete this user"
CreateRefused == last.message = "You don't have permission to create users with this role"

\* C1: wherever a handler compares the caller's role r1 with the role r2 of
\* another record (update and delete of a record that is not the caller's),
\* the comparison lets the request pass iff rank(r1) > rank(r2), except that
\* it always passes for r1 = master, master against master included.
C1_CanManageLadder ==
    (last.op \in {"update", "delete"} /\ BothFound /\ last.actor # last.target)
        => ((~UpdateRefused /\ ~DeleteRefused) <=> canManage(last.arole, last.trole))

\* C2: a self-update (PUT /users/:id by the record's own id) leaves the
\* record's role, managerId and tlId as they were, whatever the body carries.
C2_SelfUpdateKeepsRoleAndLinks ==
    [][(last'.op = "update" /\ last'.actor = last'.target /\ last'.status = 200)
        => /\ dir'[last'.target].role = dir[last'.target].role
           /\ dir'[last'.target].managerId = dir[last'.target].managerId
           /\ dir'[last'.target].tlId = dir[last'.target].tlId]_vars

\* C3: the listing GET /users of a caller whose role is user is empty.
C3_UserSeesNobody ==
    (last.op = "list" /\ last.arole = "user") => last.users = {}

\* C4: GET /users/:id of an existing record answers with the record iff the
\* caller asks for its own record or canManage(caller's role, record's role).
C4_CanView ==
    (last.op = "get" /\ BothFound)
        => (last.status = 200
              <=> (last.actor = last.target \/ canManage(last.arole, last.trole)))

\* C5: a record is added to the directory only by a request of a caller who
\* is in the directory and for whom canManage(caller's role, new role) holds.
C5_OnlyPrivilegedCreate ==
    last.status = 201
        => /\ last.actor \in Allocated
           /\ canManage(last.arole, last.trole)

\* C6: POST /users is refused as a permission denial iff canManage(caller's
\* role, requested role) fails; so a master may create any role, master
\* included, and whoever creates a record created a role it can manage.
C6_CanAssignRoleOnCreate ==
    (last.op = "create" /\ last.arole \in Roles)
        => /\ CreateRefused <=> ~canManage(last.arole, last.trole)
           /\ last.status = 201 => dir[last.target].role = last.trole

\* The least a permission check on a new managerId / tlId can ask: the link
\* names a record of the directory that is the caller's own or one the
\* caller can manage.
MayLinkTo(actor, id) ==
    /\ id \in DOMAIN dir
    /\ (id = actor \/ canManage(dir[actor].role, dir[id].role))

\* C7: an update of another's record that changes its role to r is applied
\* only if canManage(caller's role, r), and one that sets its managerId or
\* tlId to a record is applied only if the caller is permitted that link.
C7_UpdateChecksRoleAndLinks ==
    [][(last'.op = "update" /\ last'.actor # last'.target /\ last'.status = 200)
        => LET a == last'.actor
               old == dir[last'.target]
               new == dir'[last'.target]
           IN /\ new.role # old.role => canManage(dir[a].role, new.role)
              /\ (new.managerId # old.managerId /\ new.managerId # Null)
                    => MayLinkTo(a, new.managerId)
              /\ (new.tlId # old.tlId /\ new.tlId # Null)
                    => MayLinkTo(a, new.tlId)]_vars

\* C8: PUT /users/:id of an existing record by an existing caller is refused
\* with "no permission to update this user" iff the record is not the
\* caller's own and canManage(caller's role, record's role) fails.
C8_CanEdit ==
    (last.op = "update" /\ BothFound)
        => (UpdateRefused
              <=> ~(last.actor = last.target \/ canManage(last.arole, last.trole)))

\* C9: a DELETE /users/:id whose id is the caller's own never removes the
\* record, whatever the caller's role: it is refused, and the record is
\* still in the directory.
C9_NoSelfDelete ==
    (last.op = "delete" /\ last.actor = last.target)
        => /\ last.status \in {403, 404}
           /\ last.status = 403 => last.target \in DOMAIN dir

\* A master asked to delete its own record and was refused.
C9_Witness ==
    /\ last.op = "delete"
    /\ last.actor = last.target
    /\ last.arole = "master"
    /\ last.status = 403
    /\ last.target \in DOMAIN dir

\* C10: a delete of another's record that canManage allows removes the
\* record iff no record of the whole directory has it as managerId or tlId,
\* and is refused with 400 otherwise.
C10_DeleteIffNoDependents ==
    [][(last'.op = "delete" /\ last'.actor # last'.target
         /\ canManage(last'.arole, last'.trole))
        => IF hasSubordinates(last'.target)
           THEN last'.status = 400 /\ dir' = dir
           ELSE last'.status = 200 /\ last'.target \notin DOMAIN dir']_vars

\* The listing GET /users would answer a caller of the directory with.
visibleUsers(actor) == {i \in DOMAIN dir : UsersQuery(actor, i)}

\* C11: the listing of a manager M is exactly the records with managerId = M
\* together with the records whose tlId is a record of role tl with
\* managerId = M; a tlId that names a managed record of another role adds
\* nothing.
C11_ManagerTwoHop ==
    (last.op = "list" /\ last.arole = "manager")
        => LET M == last.actor
               tlIds == {j \in DOMAIN dir : dir[j].managerId = M /\ dir[j].role = "tl"}
           IN last.users = {i \in DOMAIN dir : dir[i].managerId = M \/ dir[i].tlId \in tlIds}

\* C12: in one directory a listing is never smaller than the listing of a
\* caller of lower rank, and the listing of a caller of role user is empty.
C12_ViewShrinksWithRank ==
    (last.op = "list" /\ last.status = 200)
        => /\ \A b \in DOMAIN dir :
                 roleHierarchy[dir[b].role] < roleHierarchy[last.arole]
                    => Cardinality(visibleUsers(b)) <= Cardinality(last.users)
           /\ last.arole = "user" => Cardinality(last.users) = 0

\* C13: the listing of an admin is exactly the records of role manager, tl
\* or user: no admin (the caller included) and no master is in it.
C13_AdminSeesLowerRoles ==
    (last.op = "list" /\ last.arole = "admin")
        => last.users = {i \in DOMAIN dir : dir[i].role \in {"manager", "tl", "user"}}

\* An admin listed a directory and got a record back, but not its own.
C13_Witness ==
    /\ last.op = "list"
    /\ last.arole = "admin"
    /\ last.users # {}
    /\ last.actor \notin last.users
    /\ \A i \in last.users : dir[i].role \notin {"admin", "master"}

\* C14: the listing of a team lead is exactly the records whose tlId is the
\* caller's id.
C14_TlSeesOwnTeam ==
    (last.op = "list" /\ last.arole = "tl")
        => last.users = {i \in DOMAIN dir : dir[i].tlId = last.actor}

\* A team lead listed a directory and got its team, which is not everybody.
C14_Witness ==
    /\ last.op = "list"
    /\ last.arole = "tl"
    /\ last.users # {}
    /\ last.users # DOMAIN dir
    /\ \A i \in last.users : dir[i].tlId = last.actor

\* C15: every managerId that is set names a record of the directory whose
\* role has at least the rank of manager, and every tlId that is set names a
\* record of the directory whose role is tl.
C15_LinksNameProperRecords ==
    \A i \in DOMAIN dir :
        /\ dir[i].managerId # Null
              => /\ dir[i].managerId \in DOMAIN dir
                 /\ roleHierarchy[dir[dir[i].managerId].role] >= roleHierarchy["manager"]
        /\ dir[i].tlId # Null
              => /\ dir[i].tlId \in DOMAIN dir
                 /\ dir[dir[i].tlId].role = "tl"

\* The records a record names as its manager or team lead.
Superiors(i) == {dir[i].managerId, dir[i].tlId} \cap DOMAIN dir

\* The records reached from the set S along managerId / tlId in at most n
\* further steps.
RECURSIVE UpTo(_, _)
UpTo(S, n) ==
    IF n = 0 THEN S
    ELSE UpTo(S \cup UNION {Superiors(j) : j \in S}, n - 1)

\* C16: no record is its own manager or team lead, and no record reaches
\* itself along managerId / tlId links.
C16_NoSelfLinkNoCycle ==
    \A i \in DOMAIN dir :
        /\ dir[i].managerId # i
        /\ dir[i].tlId # i
        /\ i \notin UpTo(Superiors(i), MaxId)

\* C18: every record of role user has a tlId, and every record of role user
\* or tl has a managerId, whichever route wrote the record last.
C18_RequiredLinksAlways ==
    \A i \in DOMAIN dir :
        /\ dir[i].role = "user" => dir[i].tlId # Null
        /\ dir[i].role \in {"user", "tl"} => dir[i].managerId # Null

C19_DeleteLeavesNoDanglingLink ==
    [][\A x \in DOMAIN dir \ DOMAIN dir' :
          \A i \in DOMAIN dir' : dir'[i].managerId # x /\ dir'[i].tlId # x]_vars

\* C20: a create, update or delete is decided by the role the caller's
\* record has in the directory when the request is served, whatever role
\* the token carries: the role compared is the stored one, the refusal for
\* rank follows from it, and a caller whose record is gone gets 404.
C20_StoredRoleDecides ==
    [][(last = Idle /\ last'.op \in {"create", "update", "delete"})
        => LET a == last'.actor
               id == last'.target
           IN IF a \notin DOMAIN dir
              THEN last'.status = 404 /\ dir' = dir
              ELSE /\ last'.arole = dir[a].role
                   /\ last'.op = "create"
                         => (last'.status = 403 <=> ~canManageRole(dir[a].role, last'.trole))
                   /\ (last'.op = "delete" /\ id \in DOMAIN dir)
                         => (last'.status = 403 <=> ~canManageRole(dir[a].role, dir[id].role))
                   /\ (last'.op = "update" /\ id \in DOMAIN dir /\ a # id)
                         => (last'.message = "You don't have permission to update this user"
                               <=> ~canManageRole(dir[a].role, dir[id].role))]_vars

\* A caller whose token carries a role that could create the requested role
\* was refused, because its record has been demoted since the login.
C20_Witness ==
    /\ last.op = "create"
    /\ last.status = 403
    /\ last.actor \in DOMAIN dir
    /\ \E tok \in tokens : tok.id = last.actor
    /\ \A tok \in tokens : tok.id = last.actor => canManageRole(tok.role, last.trole)

\* C21: a create, update or delete that is not answered 200 / 201 leaves the
\* directory as it was, and is answered with an error status and a message.
C21_DenialWritesNothing ==
    [][(last = Idle /\ last'.op \in {"create", "update", "delete"}
          /\ last'.status \notin {200, 201})
        => /\ dir' = dir
           /\ nextId' = nextId
           /\ last'.status \in {400, 403, 404, 500}
           /\ last'.message # ""]_vars

\* A delete of a record that others name was refused and the record is
\* still there.
C21_Witness ==
    /\ last.op = "delete"
    /\ last.status = 400
    /\ last.target \in DOMAIN dir
    /\ hasSubordinates(last.target)

\* The reason a response's message states.
Reason ==
    CASE last.message \in {"You don't have permission to create users with this role",
                           "You don't have permission to update this user",
                           "You don't have permission to assign this role",
                           "You don't have permission to delete this user"}
            -> "insufficient-rank"
      [] last.message \in {"Users must have a Team Leader",
                           "Users and Team Leaders must have a Manager"}
            -> "missing-required-link"
      [] last.message = "Cannot delete user with subordinates"
            -> "target-has-dependents"
      [] OTHER -> "other"

\* C22: each cause of a denial has its own reason.  A delete of the caller's
\* own record is refused with a reason that is not the one of a rank
\* failure; a rank failure is refused as insufficient rank, a role that is
\* absent from the body included; a missing link on create as a missing
\* link; a delete of a record that others name as having dependents.
C22_ReasonPerCause ==
    /\ (last.op = "delete" /\ BothFound /\ last.actor = last.target)
          => (last.status # 200 /\ Reason # "insufficient-rank")
    /\ (last.op \in {"update", "delete"} /\ BothFound /\ last.actor # last.target
           /\ ~canManage(last.arole, last.trole))
          => Reason = "insufficient-rank"
    /\ (last.op = "create" /\ last.arole \in Roles /\ ~canManage(last.arole, last.trole))
          => Reason = "insufficient-rank"
    /\ (last.op = "create" /\ last.arole \in Roles /\ canManageRole(last.arole, last.trole)
           /\ (\/ last.trole = "user" /\ ~last.hasTlId
               \/ last.trole \in {"user", "tl"} /\ ~last.hasManagerId))
          => Reason = "missing-required-link"
    /\ (last.op = "delete" /\ last.status = 400) => Reason = "target-has-dependents"

\* C23: POST /users checks the role before the links: a request that fails
\* the role check is refused for it whatever links it lacks, and a refusal
\* for a missing link is given only to a request that passed the role check.
C23_PermissionBeforeLinks ==
    (last.op = "create" /\ last.arole \in Roles)
        => /\ ~canManageRole(last.arole, last.trole) => CreateRefused
           /\ Reason = "missing-required-link" => canManageRole(last.arole, last.trole)

\* A create that had neither the rank for the role nor the links the role
\* requires was refused for the rank.
C23_Witness ==
    /\ last.op = "create"
    /\ last.trole \in {"user", "tl"}
    /\ ~last.hasTlId
    /\ ~last.hasManagerId
    /\ last.arole \in Roles
    /\ ~canManageRole(last.arole, last.trole)
    /\ CreateRefused

\* The number of records of a role in a caller's listing.
visibleOfRole(actor, role) ==
    Cardinality({i \in visibleUsers(actor) : dir[i].role = role})

\* C24: the dashboard counters of a master, an admin, a team lead and a user
\* are the listing GET /users gives the same caller, counted by role: total
\* and admin / manager / tl / user counts for a master, manager / tl / user
\* counts for an admin, the count of users for a team lead, no counter for a
\* user.  (The counters of a manager are the matter of C25.)
C24_StatsCountTheListing ==
    (last.op = "stats" /\ last.status = 200 /\ last.arole # "manager")
        => LET a == last.actor IN
           last.stats =
             CASE last.arole = "master" ->
                    [totalEmployees |-> Cardinality(visibleUsers(a)),
                     admins |-> visibleOfRole(a, "admin"),
                     managers |-> visibleOfRole(a, "manager"),
                     teamLeaders |-> visibleOfRole(a, "tl"),
                     users |-> visibleOfRole(a, "user")]
               [] last.arole = "admin" ->
                    [managers |-> visibleOfRole(a, "manager"),
                     teamLeaders |-> visibleOfRole(a, "tl"),
                     users |-> visibleOfRole(a, "user")]
               [] last.arole = "tl" ->
                    [tlTeamMembers |-> visibleOfRole(a, "user")]
               [] OTHER -> emptyStats

\* A team lead with one user in its team got the counter 1.
C24_Witness ==
    /\ last.op = "stats"
    /\ last.arole = "tl"
    /\ last.stats.tlTeamMembers = 1
    /\ visibleUsers(last.actor) # {}

\* The two-hop closure of a manager M as the specification defines it.
twoHopClosure(M) ==
    LET tlIds == {j \in DOMAIN dir : dir[j].managerId = M /\ dir[j].role = "tl"}
    IN {i \in DOMAIN dir : dir[i].managerId = M \/ dir[i].tlId \in tlIds}

C26_NoSameRankManagement ==
    /\ \A r \in Roles \ {"master"} :
          /\ ~canManageRole(r, r)
          /\ \A i \in Ids : ~clientCanManageRole([id |-> i, role |-> r], r)
    /\ ( /\ last.arole \in Roles \ {"master"}
         /\ last.trole = last.arole
         /\ \/ last.op = "create"
            \/ last.op \in {"update", "delete"} /\ last.actor # last.target )
        => /\ last.status = 403
           /\ CreateRefused \/ UpdateRefused \/ DeleteRefused

\* A caller of role user asked to delete another record of role user and was
\* refused.
C26_Witness ==
    /\ last.op = "delete"
    /\ last.arole = "user"
    /\ last.trole = "user"
    /\ last.actor # last.target
    /\ last.target \in DOMAIN dir
    /\ last.status = 403

\* C27: for the caller and the role of every create request, the client's
\* canManageRole and the server's agree, and a role the form offers to the
\* caller is not refused by the server's role test.
C27_FormOffersWhatServerAccepts ==
    (last.op = "create" /\ last.arole \in Roles /\ last.trole \in Roles)
        => LET user == [id |-> last.actor, role |-> last.arole] IN
           /\ clientCanManageRole(user, last.trole) <=> canManageRole(last.arole, last.trole)
           /\ last.trole \in availableRoles(user) => ~CreateRefused

\* C28: whatever the order in which the lookups and the saves of SignUp and
\* create requests and the email changes of update requests are served, no
\* two records of the directory have the same email.
C28_EmailsStayUnique ==
    \A i, j \in DOMAIN dir : i # j => dir[i].email # dir[j].email

\* A save whose lookup had found the email free was refused, because another
\* request gave the email to a record in between.
C28_Witness ==
    /\ last.op \in {"signup", "create"}
    /\ last.status = 500
    /\ \E i \in DOMAIN dir : dir[i].email = last.email

\* C29: on the step that completes a call of updateUser that had
\* dispatched LOGIN_START, whether the request succeeded or not, isLoading is
\* false again.
C29_UpdateClearsLoading ==
    [][(client.updateUser = "fetching" /\ client'.updateUser = "idle")
        => ~client'.state.isLoading]_vars

\* The payloads an action of each type carries.
Payloads(type) ==
    CASE type \in {"LOGIN_SUCCESS", "UPDATE_USER"} -> FromRecord \cup FromLogin
      [] type = "LOGIN_FAILURE" -> {"Login failed"}
      [] OTHER -> {NoUser}

\* C30: in every state of the provider, and in the state any one further
\* action of the five types would give, isAuthenticated is true iff user is
\* not null.
C30_AuthenticatedIffUser ==
    /\ client.state.isAuthenticated <=> client.state.user # NoUser
    /\ \A type \in {"LOGIN_START", "LOGIN_SUCCESS", "LOGIN_FAILURE", "LOGOUT", "UPDATE_USER"} :
          \A payload \in Payloads(type) :
             LET next == AuthReducer(client.state, type, payload)
             IN next.isAuthenticated <=> next.user # NoUser

\* An update answered after the user had logged out: UPDATE_USER was
\* dispatched on a state without user, and left it so.
C30_Witness ==
    /\ client.action = "UPDATE_USER"
    /\ client.state.user = NoUser
    /\ ~client.state.isAuthenticated

====
